---- MODULE Spec2Model ----
(***************************************************************************)
(* A model of parse.py, the BMRCL ridership normaliser: the station entry  *)
(* normalisers (v1, v2), the station pair normaliser, the two exit         *)
(* derivers and the combining steps of main().                             *)
(*                                                                         *)
(* Strings are sequences of one-character strings, so that splitting at a  *)
(* hyphen, matching an hour pattern and comparing two names are computed   *)
(* character by character, as Python computes them.                        *)
(***************************************************************************)
EXTENDS Integers, Sequences, FiniteSets, TLC

VARIABLES
    pc,                    \* position in main(), or in the call under study
    old_name_mapping,      \* dict alt_name -> name
    station_code_mapping,  \* dict code -> name
    files,                 \* the three input files under raw/
    all_station_data,      \* list of per-file entry frames
    all_exit_data,         \* list of per-file exit frames
    written,               \* the frames saved under data/, per record type
    arg,                   \* argument of the call under study
    ret                    \* what the call under study returned

vars == <<pc, old_name_mapping, station_code_mapping, files,
          all_station_data, all_exit_data, written, arg, ret>>

\* main() is not running: a single call is under study.
Idle ==
    /\ files = <<>>
    /\ all_station_data = <<>>
    /\ all_exit_data = <<>>
    /\ written = <<>>

----------------------------------------------------------------------------
(* Bounds of the model.                                                    *)

MaxLabelLen == 3     \* longest station label drawn for canonicalisation
MaxMapSize == 2      \* most entries of an OldNameMap drawn for canonicalisation
MaxPairRows == 2     \* most rows of a station pair table
MaxStationRows == 2  \* most rows of a station workbook, over all its sheets
MaxSheets == 2       \* most sheets of a station workbook
MaxMainRows == 1     \* most rows of an input file of main()

----------------------------------------------------------------------------
(* Characters and strings.                                                 *)

DigitChars == <<"0", "1", "2", "3", "4", "5", "6", "7", "8", "9">>

IsDigit(c) == c \in {DigitChars[i] : i \in 1..Len(DigitChars)}

DigitVal(c) == (CHOOSE i \in 1..Len(DigitChars) : DigitChars[i] = c) - 1

\* str.isdigit(): non-empty and every character a digit.
IsDigitStr(s) == Len(s) > 0 /\ \A i \in 1..Len(s) : IsDigit(s[i])

\* int(s) for a string of digits.
RECURSIVE ParseInt(_)
ParseInt(s) ==
    IF s = <<>> THEN 0
    ELSE 10 * ParseInt(SubSeq(s, 1, Len(s) - 1)) + DigitVal(s[Len(s)])

\* The characters the model uses, in code point order.
CodePointOrder ==
    <<" ", "-", "0", "1", "2", "3", "4", "5", "6", "7", "8", "9", ":",
      "A", "B", "D", "E", "G", "H", "I", "J", "K", "L", "M", "N", "O", "P",
      "S", "T", "U", "X", "Y",
      "a", "b", "c", "d", "e", "f", "h", "i", "j", "l", "m", "n", "o", "r",
      "s", "t", "u", "x", "y">>

CharCode(c) == CHOOSE i \in 1..Len(CodePointOrder) : CodePointOrder[i] = c

\* s < t for Python strings, given that they agree before position i:
\* lexicographic by code point.
RECURSIVE StrLessFrom(_, _, _)
StrLessFrom(s, t, i) ==
    IF i > Len(t) THEN FALSE
    ELSE IF i > Len(s) THEN TRUE
    ELSE IF s[i] = t[i] THEN StrLessFrom(s, t, i + 1)
    ELSE CharCode(s[i]) < CharCode(t[i])

StrLess(s, t) == StrLessFrom(s, t, 1)

\* sub in s
Contains(s, sub) ==
    \E i \in 1..(Len(s) - Len(sub) + 1) : SubSeq(s, i, i + Len(sub) - 1) = sub

\* s.startswith(pre) at position i (1-based)
MatchesAt(s, i, pre) ==
    /\ i + Len(pre) - 1 <= Len(s)
    /\ SubSeq(s, i, i + Len(pre) - 1) = pre

\* dict.get(key, default)
DictGet(d, key, default) == IF key \in DOMAIN d THEN d[key] ELSE default

\* All strings over an alphabet with lengths lo..hi.
StringsOver(alphabet, lo, hi) ==
    UNION {[1..n -> alphabet] : n \in lo..hi}

\* All dicts with at most n entries, keys from K and values from V.
DictsUpTo(K, V, n) ==
    UNION {[D -> V] : D \in {D \in SUBSET K : Cardinality(D) <= n}}

----------------------------------------------------------------------------
(* Station-label canonicalisation (the same statements appear in           *)
(* process_station_hourly_data_v1, _v2 and process_station_hourly_exits_v2)*)

Hyphen == "-"

HasHyphen(station) == \E i \in 1..Len(station) : station[i] = Hyphen

\* station.split('-', 1)[1]: what follows the first hyphen.
AfterFirstHyphen(station) ==
    LET i == CHOOSE j \in 1..Len(station) :
                 /\ station[j] = Hyphen
                 /\ \A k \in 1..(j - 1) : station[k] # Hyphen
    IN  SubSeq(station, i + 1, Len(station))

WorkingName(station) ==
    IF HasHyphen(station) THEN AfterFirstHyphen(station) ELSE station

\* A slip: the lookup is made with the raw label, not with the working name.
CanonicalNameRawLookup(station, mapping) ==
    DictGet(mapping, station, WorkingName(station))

CanonicalName(station, mapping) ==
    DictGet(mapping, WorkingName(station), WorkingName(station))

----------------------------------------------------------------------------
(* Cells, sheets and workbooks.                                            *)
(*                                                                         *)
(* A cell is NaN (empty), a number or a text.  A number is held as twice   *)
(* its value, so that halves (0.5, 1.5) are cells too and int() has        *)
(* something to truncate.  A row maps column labels to cells; a sheet has  *)
(* a name, its column labels in order and its rows in order; a workbook is *)
(* a non-empty sequence of sheets.                                         *)

NaN == [k |-> "nan", v |-> 0]
Num(twice) == [k |-> "num", v |-> twice]
Str(s) == [k |-> "str", v |-> s]

\* pd.isna(cell)
IsNa(cell) == cell.k = "nan"

\* cell == 0
IsZero(cell) == cell.k = "num" /\ cell.v = 0

\* A text that read_excel leaves a text (not one of its NaN spellings) and
\* that int() rejects.
TextCell == Str(<<"-">>)

\* int(cell) raises ValueError for a text that is no number.
IntRaises(cell) == cell.k = "str"

\* int(cell) of a number: truncation toward zero.
IntOf(cell) == IF cell.v >= 0 THEN cell.v \div 2 ELSE -((-cell.v) \div 2)

BUSINESS_DATE == <<"B", "U", "S", "I", "N", "E", "S", "S", " ", "D", "A", "T", "E">>
STATION == <<"S", "T", "A", "T", "I", "O", "N">>
TOTAL == <<"T", "O", "T", "A", "L">>

Sheet1 == <<"S", "h", "e", "e", "t", "1">>

Sheet(name, hour_columns, rows) ==
    [name |-> name, columns |-> <<BUSINESS_DATE, STATION>> \o hour_columns, rows |-> rows]

SeqsUpTo(S, n) == UNION {[1..m -> S] : m \in 0..n}

Range(s) == {s[i] : i \in 1..Len(s)}

RECURSIVE Concat(_)
Concat(ss) == IF ss = <<>> THEN <<>> ELSE Head(ss) \o Concat(Tail(ss))

\* What a call gives back: it raised, or it returned a frame.  A frame is
\* the sequence of its rows; pd.DataFrame([]) is the frame without columns.
Returned(frame) == [raised |-> FALSE, frame |-> frame]
Raised == [raised |-> TRUE, frame |-> <<>>]

----------------------------------------------------------------------------
(* Hour columns.                                                           *)

V1HourTail == <<":", "0", "0", " ", "H", "r", "s">>

\* Where r'(\d{2}):00 Hrs' matches in a column label.
V1HourMatches(col) ==
    {i \in 1..Len(col) :
        /\ i + 1 <= Len(col)
        /\ IsDigit(col[i]) /\ IsDigit(col[i + 1])
        /\ MatchesAt(col, i + 2, V1HourTail)}

Min(S) == CHOOSE x \in S : \A y \in S : x <= y

\* int(re.search(...).group(1)): the leftmost match.
V1Hour(col) ==
    LET i == Min(V1HourMatches(col)) IN ParseInt(SubSeq(col, i, i + 1))

\* col.startswith('H') and col[1:].isdigit() and len(col) == 3
IsV2HourColumn(col) ==
    /\ MatchesAt(col, 1, <<"H">>)
    /\ IsDigitStr(SubSeq(col, 2, Len(col)))
    /\ Len(col) = 3

\* int(hour_col[1:])
V2Hour(col) == ParseInt(SubSeq(col, 2, Len(col)))

HoursPerDay == 24

\* f'H{hour:02d}'
V2HourColumnOf(hour) == <<"H", DigitChars[(hour \div 10) + 1], DigitChars[(hour % 10) + 1]>>

----------------------------------------------------------------------------
(* Station entry normalisers.                                              *)

\* 'Ridership': int(ridership) if not pd.isna(ridership) else 0, after NaN
\* has been replaced by 0.
RidershipOf(cell) == IF IsNa(cell) THEN 0 ELSE IntOf(cell)

EntryRecord(row, hour, cell, mapping) ==
    [Date      |-> row[BUSINESS_DATE].v,
     Hour      |-> hour,
     Station   |-> CanonicalName(row[STATION].v, mapping),
     Ridership |-> RidershipOf(cell)]

process_station_hourly_data_v1(book, mapping) ==
    LET df == book[1]
        hour_columns == SelectSeq(df.columns,
                            LAMBDA c : c \notin {BUSINESS_DATE, STATION, TOTAL})
        matching == SelectSeq(hour_columns, LAMBDA c : V1HourMatches(c) # {})
        RowRecords(row) ==
            [i \in 1..Len(matching) |->
                EntryRecord(row, V1Hour(matching[i]), row[matching[i]], mapping)]
    IN  IF \E r \in 1..Len(df.rows) : \E c \in Range(matching) : IntRaises(df.rows[r][c])
        THEN Raised
        ELSE Returned(Concat([r \in 1..Len(df.rows) |-> RowRecords(df.rows[r])]))

EntrySheetRecordsV2(df, mapping) ==
    LET hour_columns == SelectSeq(df.columns, IsV2HourColumn)
        RowRecords(row) ==
            [i \in 1..Len(hour_columns) |->
                EntryRecord(row, V2Hour(hour_columns[i]), row[hour_columns[i]], mapping)]
    IN  Concat([r \in 1..Len(df.rows) |-> RowRecords(df.rows[r])])

EntrySheetRaisesV2(df) ==
    \E r \in 1..Len(df.rows) : \E c \in Range(SelectSeq(df.columns, IsV2HourColumn)) :
        IntRaises(df.rows[r][c])

EntryName == <<"E", "n", "t", "r", "y">>
ExitName == <<"E", "x", "i", "t">>

process_station_hourly_data_v2(book, mapping) ==
    LET entry_sheets == SelectSeq(book, LAMBDA sh : Contains(sh.name, EntryName))
    IN  IF \E s \in 1..Len(entry_sheets) : EntrySheetRaisesV2(entry_sheets[s])
        THEN Raised
        ELSE Returned(Concat([s \in 1..Len(entry_sheets) |->
                                 EntrySheetRecordsV2(entry_sheets[s], mapping)]))

----------------------------------------------------------------------------
(* Exit deriver, direct extraction (v2).                                   *)

ExitSheetRecordsV2(df, mapping) ==
    LET hour_columns == SelectSeq(df.columns, IsV2HourColumn)
        Cell(row, hour) ==
            IF V2HourColumnOf(hour) \in Range(hour_columns)
            THEN row[V2HourColumnOf(hour)]
            ELSE Num(0)
        RowRecords(row) ==
            [i \in 1..HoursPerDay |-> EntryRecord(row, i - 1, Cell(row, i - 1), mapping)]
    IN  Concat([r \in 1..Len(df.rows) |-> RowRecords(df.rows[r])])

ExitSheetRaisesV2(df) ==
    \E r \in 1..Len(df.rows) : \E h \in 0..(HoursPerDay - 1) :
        /\ V2HourColumnOf(h) \in Range(SelectSeq(df.columns, IsV2HourColumn))
        /\ IntRaises(df.rows[r][V2HourColumnOf(h)])

process_station_hourly_exits_v2(book, mapping) ==
    LET exit_sheets == SelectSeq(book, LAMBDA sh : Contains(sh.name, ExitName))
    IN  IF \E s \in 1..Len(exit_sheets) : ExitSheetRaisesV2(exit_sheets[s])
        THEN Raised
        ELSE Returned(Concat([s \in 1..Len(exit_sheets) |->
                                 ExitSheetRecordsV2(exit_sheets[s], mapping)]))

----------------------------------------------------------------------------
(* Composite date-hour cell of the station pair table.                     *)

\* re.match(r'(\d{4}-\d{2}-\d{2})', s): the pattern at the start of s.
DateMatches(s) ==
    /\ Len(s) >= 10
    /\ \A i \in {1, 2, 3, 4, 6, 7, 9, 10} : IsDigit(s[i])
    /\ s[5] = Hyphen /\ s[8] = Hyphen

DateOf(s) == SubSeq(s, 1, 10)

HrsDash == <<"H", "r", "s", "-">>
HrsEnd == <<"h", "r", "s">>

\* The end of the run of digits that starts at i (i - 1 when s[i] is no digit).
RECURSIVE DigitRunEnd(_, _)
DigitRunEnd(s, i) ==
    IF i <= Len(s) /\ IsDigit(s[i]) THEN DigitRunEnd(s, i + 1) ELSE i - 1

\* re.search(r'(\d+)Hrs-(\d+)hrs', s) matches from position i.
HourMatchesAt(s, i) ==
    LET j == DigitRunEnd(s, i)
        m == DigitRunEnd(s, j + 5)
    IN  /\ j >= i
        /\ MatchesAt(s, j + 1, HrsDash)
        /\ m >= j + 5
        /\ MatchesAt(s, m + 1, HrsEnd)

\* The leftmost position from i on where the hour pattern matches, 0 if none.
RECURSIVE HourSearch(_, _)
HourSearch(s, i) ==
    IF i > Len(s) THEN 0
    ELSE IF HourMatchesAt(s, i) THEN i
    ELSE HourSearch(s, i + 1)

\* int(hour_match.group(1)), the match starting at i.
HourOf(s, i) == ParseInt(SubSeq(s, i, DigitRunEnd(s, i)))

\* One row of the pair table up to the destination loop: skipped (NaN origin,
\* NaN cell, no date, no hour), or parsed into date_str and hour.
ParseRow(row) ==
    IF IsNa(row[STATION]) \/ IsNa(row[BUSINESS_DATE])
    THEN [ok |-> FALSE, date_str |-> <<>>, hour |-> 0]
    ELSE LET date_hour_str == row[BUSINESS_DATE].v
             at == HourSearch(date_hour_str, 1)
         IN  IF ~DateMatches(date_hour_str) \/ at = 0
             THEN [ok |-> FALSE, date_str |-> <<>>, hour |-> 0]
             ELSE [ok |-> TRUE, date_str |-> DateOf(date_hour_str),
                   hour |-> HourOf(date_hour_str, at)]

----------------------------------------------------------------------------
(* Station pair normaliser.                                                *)

\* if pd.isna(ridership) or ridership == 0: continue
SkipsCell(cell) == IsNa(cell) \/ IsZero(cell)

PairStationColumns(df) ==
    SelectSeq(df.columns, LAMBDA c : c \notin {BUSINESS_DATE, STATION})

\* The rows of the table with what ParseRow made of each.
ParsedRows(df) ==
    [r \in 1..Len(df.rows) |-> [row |-> df.rows[r], parse |-> ParseRow(df.rows[r])]]

\* The cells the two loops reach and do not skip, each with the date, the
\* hour and the origin of its row and the code of its column.
VisitedCells(df) ==
    LET station_columns == PairStationColumns(df)
        parsed == ParsedRows(df)
        RowCells(p) ==
            IF p.parse.ok
            THEN SelectSeq([i \in 1..Len(station_columns) |->
                               [date_str  |-> p.parse.date_str,
                                hour      |-> p.parse.hour,
                                origin    |-> p.row[STATION].v,
                                dest      |-> station_columns[i],
                                ridership |-> p.row[station_columns[i]]]],
                           LAMBDA c : ~SkipsCell(c.ridership))
            ELSE <<>>
    IN  Concat([r \in 1..Len(parsed) |-> RowCells(parsed[r])])

PairRecord(cell, mapping) ==
    [Date        |-> cell.date_str,
     Hour        |-> cell.hour,
     Origin      |-> DictGet(mapping, cell.origin, cell.origin),
     Destination |-> DictGet(mapping, cell.dest, cell.dest),
     Ridership   |-> IntOf(cell.ridership)]

\* The loop of process_stationpair_hourly_data: output_data, or ValueError.
PairOutputData(book, mapping) ==
    LET cells == VisitedCells(book[1])
    IN  IF \E i \in 1..Len(cells) : IntRaises(cells[i].ridership)
        THEN Raised
        ELSE Returned([i \in 1..Len(cells) |-> PairRecord(cells[i], mapping)])

----------------------------------------------------------------------------
(* Exit deriver, aggregation over the pair table (v1).                     *)

DictPut(d, key, value) ==
    [x \in (DOMAIN d) \cup {key} |-> IF x = key THEN value ELSE d[x]]

\* A slip: the running total is overwritten, not added to.
AddToTotalOverwrites(exit_data, key, amount) == DictPut(exit_data, key, amount)

\* exit_data[key] = exit_data.get(key, 0) + int(ridership)
AddToTotal(exit_data, key, amount) ==
    DictPut(exit_data, key, DictGet(exit_data, key, 0) + amount)

\* exit_data after the loops, cell after cell.
RECURSIVE Accumulate(_, _, _)
Accumulate(cells, mapping, exit_data) ==
    IF cells = <<>> THEN exit_data
    ELSE LET c == Head(cells)
             key == <<c.date_str, c.hour, DictGet(mapping, c.dest, c.dest)>>
         IN  Accumulate(Tail(cells), mapping,
                        AddToTotal(exit_data, key, IntOf(c.ridership)))

\* date_station_combinations: every destination column of every parsed row.
DateStationCombinations(df, mapping) ==
    LET parsed == ParsedRows(df)
    IN  {<<parsed[r].parse.date_str, DictGet(mapping, c, c)>> :
            r \in {r \in 1..Len(parsed) : parsed[r].parse.ok},
            c \in Range(PairStationColumns(df))}

\* The orders in which a set may be iterated.
Orders(S) ==
    {f \in [1..Cardinality(S) -> S] : \A i, j \in 1..Cardinality(S) : f[i] = f[j] => i = j}

\* The first half of process_station_hourly_exits_v1: exit_data, or ValueError.
ExitData(book, mapping) ==
    LET cells == VisitedCells(book[1])
    IN  IF \E i \in 1..Len(cells) : IntRaises(cells[i].ridership)
        THEN [raised |-> TRUE, totals |-> <<>>]
        ELSE [raised |-> FALSE, totals |-> Accumulate(cells, mapping, <<>>)]

\* The second half: 24 records for each combination, in the order in which
\* Python iterates the set date_station_combinations.
ExitRecordsV1(exit_data, order) ==
    LET Records(combo) ==
            [i \in 1..HoursPerDay |->
                [Date      |-> combo[1],
                 Hour      |-> i - 1,
                 Station   |-> combo[2],
                 Ridership |-> DictGet(exit_data, <<combo[1], i - 1, combo[2]>>, 0)]]
    IN  Concat([i \in 1..Len(order) |-> Records(order[i])])

\* What process_station_hourly_exits_v1 may return: one frame for each order
\* in which the set may be iterated.
process_station_hourly_exits_v1(book, mapping) ==
    LET exit_data == ExitData(book, mapping)
    IN  IF exit_data.raised THEN {Raised}
        ELSE {Returned(ExitRecordsV1(exit_data.totals, order)) :
                 order \in Orders(DateStationCombinations(book[1], mapping))}

----------------------------------------------------------------------------
(* Sorting and combining frames.                                           *)

\* The columns main() sorts the entry and the exit frames by, and the
\* columns process_stationpair_hourly_data sorts by.
EntrySortKey == <<"Date", "Station", "Hour">>
PairSortKey == <<"Date", "Hour", "Origin", "Destination">>

\* x < y for two values of a column: numbers in Hour, strings elsewhere.
ValueLess(column, x, y) == IF column = "Hour" THEN x < y ELSE StrLess(x, y)

\* Row a sorts before row b: the first column of `by` in which they differ.
RECURSIVE KeyLess(_, _, _)
KeyLess(a, b, by) ==
    IF by = <<>> THEN FALSE
    ELSE IF a[Head(by)] = b[Head(by)] THEN KeyLess(a, b, Tail(by))
    ELSE ValueLess(Head(by), a[Head(by)], b[Head(by)])

RECURSIVE Merge(_, _, _)
Merge(left, right, by) ==
    IF left = <<>> THEN right
    ELSE IF right = <<>> THEN left
    ELSE IF KeyLess(Head(right), Head(left), by)
    THEN <<Head(right)>> \o Merge(left, Tail(right), by)
    ELSE <<Head(left)>> \o Merge(Tail(left), right, by)

\* A slip: rows that repeat the key of an earlier row are dropped.
RECURSIVE SortValuesDropsDuplicates(_, _)
SortValuesDropsDuplicates(frame, by) ==
    IF Len(frame) <= 1 THEN frame
    ELSE LET half == Len(frame) \div 2
             merged == Merge(SortValuesDropsDuplicates(SubSeq(frame, 1, half), by),
                             SortValuesDropsDuplicates(SubSeq(frame, half + 1, Len(frame)), by),
                             by)
         IN  SelectSeq([i \in 1..Len(merged) |-> [at |-> i, row |-> merged[i]]],
                       LAMBDA x : x.at = 1 \/ KeyLess(merged[x.at - 1], x.row, by))

\* DataFrame.sort_values(by) on several columns: a stable sort, here by
\* merging, equal keys keeping the order they had.
RECURSIVE SortValues(_, _)
SortValues(frame, by) ==
    IF Len(frame) <= 1 THEN frame
    ELSE LET half == Len(frame) \div 2
         IN  Merge(SortValues(SubSeq(frame, 1, half), by),
                   SortValues(SubSeq(frame, half + 1, Len(frame)), by),
                   by)

\* sort_values raises KeyError on the frame without columns.
SortRaises(frame) == frame = <<>>

\* process_stationpair_hourly_data up to its return: the loop, the frame,
\* the sort.  Saving is the persistence collaborator's.
process_stationpair_hourly_data(book, mapping) ==
    LET output_data == PairOutputData(book, mapping)
    IN  IF output_data.raised \/ SortRaises(output_data.frame)
        THEN Raised
        ELSE Returned(SortValues(output_data.frame, PairSortKey))

----------------------------------------------------------------------------
(* The single-file entry normaliser process_station_hourly_data.  Its      *)
(* station_name is assigned only for a label with a hyphen, so the local   *)
(* keeps what the previous cell left in it, and is unbound before that.    *)

Unbound == [bound |-> FALSE, v |-> <<>>]
Bound(name) == [bound |-> TRUE, v |-> name]

\* The cells the loops visit: every row, every column with an hour.
LegacyCells(df) ==
    LET hour_columns == SelectSeq(df.columns,
                            LAMBDA c : c \notin {BUSINESS_DATE, STATION, TOTAL})
        matching == SelectSeq(hour_columns, LAMBDA c : V1HourMatches(c) # {})
    IN  Concat([r \in 1..Len(df.rows) |->
                   [i \in 1..Len(matching) |-> [row |-> df.rows[r], col |-> matching[i]]]])

RECURSIVE LegacyLoop(_, _, _, _)
LegacyLoop(cells, mapping, station_name, output_data) ==
    IF cells = <<>> THEN Returned(output_data)
    ELSE LET row == Head(cells).row
             col == Head(cells).col
             station == row[STATION].v
             split == IF HasHyphen(station) THEN Bound(AfterFirstHyphen(station))
                      ELSE station_name
         IN  IF ~split.bound \/ IntRaises(row[col]) THEN Raised
             ELSE LET name == DictGet(mapping, split.v, split.v)
                  IN  LegacyLoop(Tail(cells), mapping, Bound(name),
                                 Append(output_data,
                                        [Date      |-> row[BUSINESS_DATE].v,
                                         Hour      |-> V1Hour(col),
                                         Station   |-> name,
                                         Ridership |-> RidershipOf(row[col])]))

process_station_hourly_data(book, mapping) ==
    LET looped == LegacyLoop(LegacyCells(book[1]), mapping, Unbound, <<>>)
    IN  IF looped.raised \/ SortRaises(looped.frame) THEN Raised
        ELSE Returned(SortValues(looped.frame, EntrySortKey))

----------------------------------------------------------------------------
(* The pair table as input: the pair normaliser and the aggregating exit   *)
(* deriver applied to the same table and the same station-code map.        *)

Date1 == <<"2", "0", "2", "5", "-", "0", "8", "-", "0", "1">>
Date2 == <<"2", "0", "2", "5", "-", "0", "8", "-", "0", "2">>

\* "<date> <h1>Hrs-<h2>hrs"
DateHour(date, h1, h2) == date \o <<" ">> \o h1 \o HrsDash \o h2 \o HrsEnd

CodeBN == <<"B", "N">>
CodeBY == <<"B", "Y">>
CodeMJ == <<"M", "J">>
CodeKG == <<"K", "G">>
NameBai == <<"B", "a", "i">>
NameMaj == <<"M", "a", "j">>

\* Both destination codes resolve to one name.
CodeMap == [c \in {CodeBN, CodeBY, CodeMJ} |-> IF c = CodeMJ THEN NameMaj ELSE NameBai]

DateHour1 == Str(DateHour(Date1, <<"0", "8">>, <<"0", "9">>))
DateHour2 == Str(DateHour(Date2, <<"2", "5">>, <<"2", "6">>))

PairRow(date_hour, origin, c1, c2) ==
    [c \in {BUSINESS_DATE, STATION, CodeBN, CodeBY} |->
        IF c = BUSINESS_DATE THEN date_hour
        ELSE IF c = STATION THEN origin
        ELSE IF c = CodeBN THEN c1 ELSE c2]

\* Rows of origin MJ with every kind of cell in column BN (empty, 0, 0.5, 5,
\* -3) and 12 in column BY; a row of a second origin; and one row for each
\* way a row is skipped (no origin, no cell, no hour, no date).
PairRows ==
    {PairRow(dh, Str(CodeMJ), c1, Num(24)) :
        dh \in {DateHour1, DateHour2},
        c1 \in {NaN, Num(0), Num(1), Num(10), Num(-6)}}
    \cup {PairRow(DateHour1, Str(CodeKG), Num(24), NaN),
          PairRow(DateHour1, NaN, Num(10), Num(10)),
          PairRow(NaN, Str(CodeMJ), Num(10), Num(10)),
          PairRow(Str(Date1), Str(CodeMJ), Num(10), Num(10)),
          PairRow(Str(<<"T", "o", "t", "a", "l">>), Str(CodeMJ), Num(10), Num(10))}

PairBooks(rows, n) ==
    {<<[name |-> Sheet1,
        columns |-> <<BUSINESS_DATE, STATION, CodeBN, CodeBY>>,
        rows |-> rs]>> : rs \in SeqsUpTo(rows, n)}

InitPair ==
    /\ pc = "pair_table"
    /\ old_name_mapping = <<>>
    /\ station_code_mapping \in {<<>>, CodeMap}
    /\ arg \in PairBooks(PairRows, MaxPairRows)
    /\ ret = <<>>
    /\ Idle

CallPair ==
    /\ pc = "pair_table"
    /\ "pair" \notin DOMAIN ret
    /\ ret' = DictPut(ret, "pair", process_stationpair_hourly_data(arg, station_code_mapping))
    /\ UNCHANGED <<pc, old_name_mapping, station_code_mapping, files,
                   all_station_data, all_exit_data, written, arg>>

CallExitsV1 ==
    /\ pc = "pair_table"
    /\ "exits" \notin DOMAIN ret
    /\ \E result \in process_station_hourly_exits_v1(arg, station_code_mapping) :
           ret' = DictPut(ret, "exits", result)
    /\ UNCHANGED <<pc, old_name_mapping, station_code_mapping, files,
                   all_station_data, all_exit_data, written, arg>>

NextPair == CallPair \/ CallExitsV1

SpecPair == InitPair /\ [][NextPair]_vars

----------------------------------------------------------------------------
(* A station workbook as input: one of the station entry normalisers or    *)
(* the extracting exit deriver applied to it.                              *)

ToSep == <<" ", "T", "o", " ">>

\* "<h1>:00 Hrs To <h2>:00 Hrs"
V1Column(h1, h2) == h1 \o V1HourTail \o ToSep \o h2 \o V1HourTail

Remarks == <<"R", "e", "m", "a", "r", "k", "s">>

\* The hour columns of a v1 sheet: two hours; one hour under two labels; an
\* hour past 23 beside a column that is no hour column.
V1ColumnSets ==
    {<<V1Column(<<"0", "0">>, <<"0", "1">>), <<"2", "3">> \o V1HourTail, TOTAL>>,
     <<V1Column(<<"0", "0">>, <<"0", "1">>), <<"0", "0">> \o V1HourTail, TOTAL>>,
     <<V1Column(<<"2", "4">>, <<"2", "5">>), Remarks, TOTAL>>}

\* The hour columns of a v2 sheet: H00 and H23; H05, H99 and a column H1.
V2ColumnSets ==
    {<<<<"H", "0", "0">>, <<"H", "2", "3">>, TOTAL>>,
     <<<<"H", "0", "5">>, <<"H", "9", "9">>, <<"H", "1">>>>}

LabelBMaj == <<"B", "-", "M", "a", "j">>
LabelGMaj == <<"G", "-", "M", "a", "j">>
NameKem == <<"K", "e", "m">>

OldNameMap == [n \in {NameMaj} |-> NameKem]

\* The rows of a station sheet: every given station label and every given
\* cell under the first hour column; 12 under every other column and a text
\* under Remarks.
StationRows(columns, stations, cells) ==
    {[c \in {BUSINESS_DATE, STATION} \cup Range(columns) |->
          IF c = BUSINESS_DATE THEN Str(Date1)
          ELSE IF c = STATION THEN Str(st)
          ELSE IF c = columns[1] THEN c1
          ELSE IF c = Remarks THEN Str(<<"o", "k">>)
          ELSE Num(24)] :
        st \in stations, c1 \in cells}

\* A sheet for every name, column set and m rows; rows_of maps a column set
\* to the rows over it.
SheetsWith(names, column_sets, rows_of, m) ==
    UNION {{Sheet(name, cs, rows) : name \in names, rows \in [1..m -> rows_of[cs]]} :
              cs \in column_sets}

\* The workbooks whose sheets bear the given names, in that order, with at
\* most n rows in all.
RECURSIVE BooksNamed(_, _, _, _)
BooksNamed(names, column_sets, rows_of, n) ==
    IF names = <<>> THEN {<<>>}
    ELSE UNION {{<<sh>> \o rest :
                    sh \in SheetsWith({Head(names)}, column_sets, rows_of, m),
                    rest \in BooksNamed(Tail(names), column_sets, rows_of, n - m)} :
                   m \in 0..n}

\* Every station label; a cell that is empty, 5, -3 or a text.
AllStationRows(columns) ==
    StationRows(columns, {LabelBMaj, LabelGMaj, NameBai},
                {NaN, Num(10), Num(-6), TextCell})

SepEntry == <<"S", "e", "p", " ">> \o EntryName
SepExit == <<"S", "e", "p", " ">> \o ExitName
SheetNames == {SepEntry, SepExit}

V1Books(n) == BooksNamed(<<Sheet1>>, V1ColumnSets, [cs \in V1ColumnSets |-> AllStationRows(cs)], n)

V2Books(n, sheets) ==
    UNION {BooksNamed(names, V2ColumnSets, [cs \in V2ColumnSets |-> AllStationRows(cs)], n) :
              names \in UNION {[1..k -> SheetNames] : k \in 1..sheets}}

InitStation ==
    /\ pc = "station_book"
    /\ old_name_mapping \in {<<>>, OldNameMap}
    /\ station_code_mapping = <<>>
    /\ arg \in V1Books(MaxStationRows) \cup V2Books(MaxStationRows, MaxSheets)
    /\ ret = <<>>
    /\ Idle

CallEntryV1 ==
    /\ pc = "station_book"
    /\ ret = <<>>
    /\ ret' = DictPut(ret, "entry_v1", process_station_hourly_data_v1(arg, old_name_mapping))
    /\ UNCHANGED <<pc, old_name_mapping, station_code_mapping, files,
                   all_station_data, all_exit_data, written, arg>>

CallEntryV2 ==
    /\ pc = "station_book"
    /\ ret = <<>>
    /\ ret' = DictPut(ret, "entry_v2", process_station_hourly_data_v2(arg, old_name_mapping))
    /\ UNCHANGED <<pc, old_name_mapping, station_code_mapping, files,
                   all_station_data, all_exit_data, written, arg>>

CallExitsV2 ==
    /\ pc = "station_book"
    /\ ret = <<>>
    /\ ret' = DictPut(ret, "exits", process_station_hourly_exits_v2(arg, old_name_mapping))
    /\ UNCHANGED <<pc, old_name_mapping, station_code_mapping, files,
                   all_station_data, all_exit_data, written, arg>>

CallEntry ==
    /\ pc = "station_book"
    /\ ret = <<>>
    /\ ret' = DictPut(ret, "entry", process_station_hourly_data(arg, old_name_mapping))
    /\ UNCHANGED <<pc, old_name_mapping, station_code_mapping, files,
                   all_station_data, all_exit_data, written, arg>>

NextStation == CallEntryV1 \/ CallEntryV2 \/ CallExitsV2 \/ CallEntry

SpecStation == InitStation /\ [][NextStation]_vars

\* Every normaliser on every input of the two kinds.
SpecCalls == (InitPair \/ InitStation) /\ [][NextPair \/ NextStation]_vars

----------------------------------------------------------------------------
(* main(): the mappings are loaded, the two station files are normalised   *)
(* and combined, the exits are derived and combined, the pair table is     *)
(* normalised.  A file is absent, unreadable or a workbook; a mapping file *)
(* is absent or a dict.                                                    *)

Absent == [state |-> "absent", content |-> <<>>]
Unreadable == [state |-> "unreadable", content |-> <<>>]
File(content) == [state |-> "ok", content |-> content]

NotSaved == [saved |-> FALSE, frame |-> <<>>]
Saved(frame) == [saved |-> TRUE, frame |-> frame]

\* Station sheets of main(): a station with 5, a station with a text.
MainStationRows(columns) ==
    StationRows(columns, {NameBai}, {Num(10)})
    \cup StationRows(columns, {LabelBMaj}, {TextCell})

MainV1Columns == {<<V1Column(<<"0", "0">>, <<"0", "1">>), <<"2", "3">> \o V1HourTail, TOTAL>>}
MainV2Columns == {<<<<"H", "0", "0">>, <<"H", "2", "3">>, TOTAL>>}

\* A v1 workbook; a v2 workbook of an Entry sheet, an Exit sheet or both.
MainStationBooks(n) ==
    BooksNamed(<<Sheet1>>, MainV1Columns, [cs \in MainV1Columns |-> MainStationRows(cs)], n)
    \cup UNION {BooksNamed(names, MainV2Columns, [cs \in MainV2Columns |-> MainStationRows(cs)], n) :
                   names \in {<<SepEntry>>, <<SepExit>>, <<SepEntry, SepExit>>}}

\* Pair rows of main(): traffic; a zero and an empty cell; a text.
MainPairRows ==
    {PairRow(DateHour1, Str(CodeMJ), Num(10), Num(24)),
     PairRow(DateHour1, Str(CodeKG), Num(0), NaN),
     PairRow(DateHour1, Str(CodeMJ), TextCell, Num(24))}

Init ==
    /\ pc = "load"
    /\ old_name_mapping = <<>>
    /\ station_code_mapping = <<>>
    /\ files \in [aug_station   : {Absent, Unreadable}
                                    \cup {File(b) : b \in MainStationBooks(MaxMainRows)},
                  sep_station   : {Absent, Unreadable}
                                    \cup {File(b) : b \in MainStationBooks(MaxMainRows)},
                  aug_pair      : {Absent, Unreadable}
                                    \cup {File(b) : b \in PairBooks(MainPairRows, MaxMainRows)},
                  station_names : {File(OldNameMap)},
                  station_codes : {Absent, File(CodeMap)}]
    /\ all_station_data = <<>>
    /\ all_exit_data = <<>>
    /\ written = [entry |-> NotSaved, exit |-> NotSaved, pair |-> NotSaved]
    /\ arg = <<>>
    /\ ret = <<>>

\* load_old_name_mapping, load_station_code_mapping: {} for a missing file.
LoadMapping(file) == IF file.state = "ok" THEN file.content ELSE <<>>

LoadMappings ==
    /\ pc = "load"
    /\ old_name_mapping' = LoadMapping(files.station_names)
    /\ station_code_mapping' = LoadMapping(files.station_codes)
    /\ pc' = "entry1"
    /\ UNCHANGED <<files, all_station_data, all_exit_data, written, arg, ret>>

\* Any column that starts with 'H'.
has_h_columns_prefix_only(columns) ==
    \E i \in 1..Len(columns) : MatchesAt(columns[i], 1, <<"H">>)

\* any(col.startswith('H') and col[1:].isdigit() and len(col) == 3 ...)
has_h_columns(columns) == \E i \in 1..Len(columns) : IsV2HourColumn(columns[i])

\* The normaliser that the columns of the first sheet select.
DetectedVersion(columns) == IF has_h_columns(columns) THEN "V2" ELSE "V1"

\* The body of the try for one station file.
StationFileFrame(file, mapping) ==
    IF file.state = "unreadable" THEN Raised
    ELSE IF DetectedVersion(file.content[1].columns) = "V2"
    THEN process_station_hourly_data_v2(file.content, mapping)
    ELSE process_station_hourly_data_v1(file.content, mapping)

\* One turn of the loop over station_hourly_files.
ProcessStationFile ==
    /\ pc \in {"entry1", "entry2"}
    /\ LET file == IF pc = "entry1" THEN files.aug_station ELSE files.sep_station
           result == StationFileFrame(file, old_name_mapping)
       IN  all_station_data' =
               IF file.state = "absent" \/ result.raised THEN all_station_data
               ELSE Append(all_station_data, result.frame)
    /\ pc' = IF pc = "entry1" THEN "entry2" ELSE "entry_combine"
    /\ UNCHANGED <<old_name_mapping, station_code_mapping, files, all_exit_data,
                   written, arg, ret>>

\* pd.concat(frames, ignore_index=True)
ConcatFrames(frames) == Concat(frames)

\* if all_station_data: concat, sort, save.  The KeyError of the sort is
\* caught nowhere and ends main().
CombineStation ==
    /\ pc = "entry_combine"
    /\ IF all_station_data = <<>>
       THEN pc' = "exit_v1" /\ UNCHANGED written
       ELSE IF SortRaises(ConcatFrames(all_station_data))
       THEN pc' = "crashed" /\ UNCHANGED written
       ELSE /\ pc' = "exit_v1"
            /\ written' = [written EXCEPT !.entry =
                              Saved(SortValues(ConcatFrames(all_station_data), EntrySortKey))]
    /\ UNCHANGED <<old_name_mapping, station_code_mapping, files, all_station_data,
                   all_exit_data, arg, ret>>

\* August exits, from the pair table.
ExitsAugust ==
    /\ pc = "exit_v1"
    /\ LET file == files.aug_pair
       IN  IF file.state # "ok"
           THEN UNCHANGED all_exit_data
           ELSE \E result \in process_station_hourly_exits_v1(file.content, station_code_mapping) :
                    all_exit_data' = IF result.raised THEN all_exit_data
                                     ELSE Append(all_exit_data, result.frame)
    /\ pc' = "exit_v2"
    /\ UNCHANGED <<old_name_mapping, station_code_mapping, files, all_station_data,
                   written, arg, ret>>

\* any('Exit' in sheet for sheet in xl.sheet_names)
has_exit_sheets(book) == \E i \in 1..Len(book) : Contains(book[i].name, ExitName)

\* September exits, from the Exit sheets.
ExitsSeptember ==
    /\ pc = "exit_v2"
    /\ LET file == files.sep_station
           result == process_station_hourly_exits_v2(file.content, old_name_mapping)
       IN  all_exit_data' =
               IF file.state = "ok" /\ has_exit_sheets(file.content) /\ ~result.raised
               THEN Append(all_exit_data, result.frame)
               ELSE all_exit_data
    /\ pc' = "exit_combine"
    /\ UNCHANGED <<old_name_mapping, station_code_mapping, files, all_station_data,
                   written, arg, ret>>

CombineExit ==
    /\ pc = "exit_combine"
    /\ IF all_exit_data = <<>>
       THEN pc' = "pair" /\ UNCHANGED written
       ELSE IF SortRaises(ConcatFrames(all_exit_data))
       THEN pc' = "crashed" /\ UNCHANGED written
       ELSE /\ pc' = "pair"
            /\ written' = [written EXCEPT !.exit =
                              Saved(SortValues(ConcatFrames(all_exit_data), EntrySortKey))]
    /\ UNCHANGED <<old_name_mapping, station_code_mapping, files, all_station_data,
                   all_exit_data, arg, ret>>

\* The pair table: every exception is caught and printed.
ProcessStationPair ==
    /\ pc = "pair"
    /\ LET file == files.aug_pair
           result == process_stationpair_hourly_data(file.content, station_code_mapping)
       IN  written' = IF file.state = "ok" /\ ~result.raised
                      THEN [written EXCEPT !.pair = Saved(result.frame)]
                      ELSE written
    /\ pc' = "done"
    /\ UNCHANGED <<old_name_mapping, station_code_mapping, files, all_station_data,
                   all_exit_data, arg, ret>>

Next ==
    \/ LoadMappings
    \/ ProcessStationFile
    \/ CombineStation
    \/ ExitsAugust
    \/ ExitsSeptember
    \/ CombineExit
    \/ ProcessStationPair

Spec == Init /\ [][Next]_vars

----------------------------------------------------------------------------
(* Properties of the normalisers, on the frame a call returned.            *)

Called(fn) == fn \in DOMAIN ret

\* The rows a call returned; none when it was not made or raised.
FrameOf(fn) == IF Called(fn) /\ ~ret[fn].raised THEN ret[fn].frame ELSE <<>>

RECURSIVE SumRidership(_)
SumRidership(frame) ==
    IF frame = <<>> THEN 0 ELSE Head(frame).Ridership + SumRidership(Tail(frame))

\* The (Date, Station) pairs the source of the exit deriver shows: for the
\* pair table every destination column of every parsed row, for a workbook
\* every row of every Exit sheet.
ObservedExitPairs ==
    IF pc = "pair_table"
    THEN DateStationCombinations(arg[1], station_code_mapping)
    ELSE UNION {{<<arg[s].rows[r][BUSINESS_DATE].v,
                   CanonicalName(arg[s].rows[r][STATION].v, old_name_mapping)>> :
                    r \in 1..Len(arg[s].rows)} :
                   s \in {s \in 1..Len(arg) : Contains(arg[s].name, ExitName)}}

RowsOfHour(frame, date, station, hour) ==
    {i \in 1..Len(frame) :
        frame[i].Date = date /\ frame[i].Station = station /\ frame[i].Hour = hour}

RowsOfDay(frame, date, station) ==
    {i \in 1..Len(frame) : frame[i].Date = date /\ frame[i].Station = station}

\* C1: in the frame an exit deriver returns, every observed (Date, Station)
\* pair has exactly 24 records, one for each Hour 0..23 and no Hour twice.
C1_ExitDensity ==
    (Called("exits") /\ ~ret["exits"].raised) =>
        \A p \in ObservedExitPairs :
            /\ Cardinality(RowsOfDay(ret["exits"].frame, p[1], p[2])) = HoursPerDay
            /\ \A h \in 0..(HoursPerDay - 1) :
                   Cardinality(RowsOfHour(ret["exits"].frame, p[1], p[2], h)) = 1

C15_ExitSumConserved ==
    (pc = "pair_table" /\ Called("pair") /\ Called("exits")) =>
        SumRidership(FrameOf("exits")) = SumRidership(FrameOf("pair"))

\* C4: every record process_stationpair_hourly_data emits has Ridership > 0.
C4_PairRidershipPositive ==
    \A i \in 1..Len(FrameOf("pair")) : FrameOf("pair")[i].Ridership > 0

\* C5: every entry and exit record has an integer Ridership >= 0.
C5_RidershipNonNegative ==
    \A fn \in {"entry_v1", "entry_v2", "exits"} :
        \A i \in 1..Len(FrameOf(fn)) : FrameOf(fn)[i].Ridership \in Nat

\* C7: within the entry records of one file no two records share the key
\* (Date, Station, Hour).
C7_EntryKeyUnique ==
    \A fn \in {"entry_v1", "entry_v2"} :
        \A i, j \in 1..Len(FrameOf(fn)) :
            (/\ FrameOf(fn)[i].Date = FrameOf(fn)[j].Date
             /\ FrameOf(fn)[i].Station = FrameOf(fn)[j].Station
             /\ FrameOf(fn)[i].Hour = FrameOf(fn)[j].Hour) => i = j

\* C10: every record of every normaliser has Hour in 0..23.
C10_HourInRange ==
    \A fn \in {"entry_v1", "entry_v2", "exits", "pair"} :
        \A i \in 1..Len(FrameOf(fn)) : FrameOf(fn)[i].Hour \in 0..23

\* The name the canonicalisation rule gives a label.
RuleName(label, mapping) ==
    LET hyphens == {i \in 1..Len(label) : label[i] = "-"}
        w == IF hyphens = {} THEN label
             ELSE SubSeq(label, Min(hyphens) + 1, Len(label))
    IN  IF w \in DOMAIN mapping THEN mapping[w] ELSE w

\* The sheets an entry normaliser reads, and its hour columns of a sheet.
EntrySheetsOf(fn) ==
    IF fn = "entry_v2" THEN SelectSeq(arg, LAMBDA sh : Contains(sh.name, EntryName))
    ELSE <<arg[1]>>

EntryHourColumnsOf(fn, df) ==
    IF fn = "entry_v2" THEN SelectSeq(df.columns, IsV2HourColumn)
    ELSE SelectSeq(df.columns, LAMBDA c : c # TOTAL /\ V1HourMatches(c) # {})

\* The number of records the rule gives a station name.
RuleStationCount(fn, name) ==
    LET sheets == EntrySheetsOf(fn)
        OfSheet(df) ==
            Len(EntryHourColumnsOf(fn, df))
                * Cardinality({r \in 1..Len(df.rows) :
                                  RuleName(df.rows[r][STATION].v, old_name_mapping) = name})
    IN  SumRidership([s \in 1..Len(sheets) |-> [Ridership |-> OfSheet(sheets[s])]])

\* No cell under an hour column is a text.
EntryCellsNumeric(fn) ==
    LET sheets == EntrySheetsOf(fn)
    IN  \A s \in 1..Len(sheets) : \A r \in 1..Len(sheets[s].rows) :
            \A c \in Range(EntryHourColumnsOf(fn, sheets[s])) :
                sheets[s].rows[r][c].k # "str"

EntryCellCount(fn) ==
    LET sheets == EntrySheetsOf(fn)
    IN  SumRidership([s \in 1..Len(sheets) |->
            [Ridership |-> Len(EntryHourColumnsOf(fn, sheets[s])) * Len(sheets[s].rows)]])

\* C12: in the three entry normalisers the Station of a record is the rule's
\* name of its own row's label: when no cell is a text (and the single-file
\* normaliser has a cell to emit), the call raises nothing and every station
\* name has as many records as the rows with that name have hour cells.
C12_StationFromOwnLabel ==
    \A fn \in {"entry", "entry_v1", "entry_v2"} :
        (/\ Called(fn)
         /\ EntryCellsNumeric(fn)
         /\ fn = "entry" => EntryCellCount(fn) > 0) =>
            /\ ~ret[fn].raised
            /\ \A name \in {RuleName(l, old_name_mapping) : l \in {LabelBMaj, LabelGMaj, NameBai}}
                          \cup {r.Station : r \in Range(ret[fn].frame)} :
                   Cardinality({i \in 1..Len(ret[fn].frame) : ret[fn].frame[i].Station = name})
                       = RuleStationCount(fn, name)

\* A cell that is missing, a text, or a number that truncates to 0.
GivesZero(cell) == cell.k \in {"nan", "str"} \/ (cell.k = "num" /\ cell.v \in {-1, 0, 1})

\* The (row, hour) cells of a normaliser of station sheets: the hour columns
\* of every row for the entry normalisers, the 24 hours of every row for the
\* exit deriver (a hour without a column is a missing cell).
StationCells(fn) ==
    LET sheets == IF fn = "exits"
                  THEN SelectSeq(arg, LAMBDA sh : Contains(sh.name, ExitName))
                  ELSE EntrySheetsOf(fn)
        OfRow(df, row) ==
            IF fn = "exits"
            THEN [h \in 1..HoursPerDay |->
                     IF V2HourColumnOf(h - 1) \in Range(df.columns)
                     THEN row[V2HourColumnOf(h - 1)] ELSE NaN]
            ELSE LET cols == EntryHourColumnsOf(fn, df)
                 IN  [i \in 1..Len(cols) |-> row[cols[i]]]
        OfSheet(df) == Concat([r \in 1..Len(df.rows) |-> OfRow(df, df.rows[r])])
    IN  Concat([s \in 1..Len(sheets) |-> OfSheet(sheets[s])])

\* C14: an entry normaliser or the direct exit deriver raises nothing when a
\* cell is missing or a text; it emits one record for every (row, hour)
\* cell, with Ridership 0 for the cells that are missing or a text.
C14_NonNumericIsZero ==
    \A fn \in {"entry_v1", "entry_v2", "exits"} :
        Called(fn) =>
            LET cells == StationCells(fn)
            IN  /\ ~ret[fn].raised
                /\ Len(ret[fn].frame) = Len(cells)
                /\ Cardinality({i \in 1..Len(ret[fn].frame) : ret[fn].frame[i].Ridership = 0})
                       = Cardinality({i \in 1..Len(cells) : GivesZero(cells[i])})

----------------------------------------------------------------------------
(* Properties of main().                                                   *)

Count(frame, row) == Cardinality({i \in 1..Len(frame) : frame[i] = row})

\* One frame is a permutation of the other.
SameRows(f, g) ==
    /\ Len(f) = Len(g)
    /\ \A row \in Range(f) \cup Range(g) : Count(f, row) = Count(g, row)

\* (Date, Station, Hour) of a before that of b.
EntryOrderBefore(a, b) ==
    \/ StrLess(a.Date, b.Date)
    \/ a.Date = b.Date /\ StrLess(a.Station, b.Station)
    \/ a.Date = b.Date /\ a.Station = b.Station /\ a.Hour < b.Hour

\* (Date, Hour, Origin Station, Destination Station) of a before that of b.
PairOrderBefore(a, b) ==
    \/ StrLess(a.Date, b.Date)
    \/ a.Date = b.Date /\ a.Hour < b.Hour
    \/ a.Date = b.Date /\ a.Hour = b.Hour /\ StrLess(a.Origin, b.Origin)
    \/ /\ a.Date = b.Date /\ a.Hour = b.Hour /\ a.Origin = b.Origin
       /\ StrLess(a.Destination, b.Destination)

Running == pc \in {"load", "entry1", "entry2", "entry_combine", "exit_v1", "exit_v2",
                   "exit_combine", "pair", "done", "crashed"}

\* C2: no condition is fatal to main(): it never ends before its last step,
\* and a record type whose collected records are empty is not written.
C2_NoConditionFatal ==
    Running =>
        /\ pc # "crashed"
        /\ written.entry.saved => ConcatFrames(all_station_data) # <<>>
        /\ written.exit.saved => ConcatFrames(all_exit_data) # <<>>
        /\ written.pair.saved => written.pair.frame # <<>>

StationFileSucceeded(file) ==
    file.state = "ok" /\ ~StationFileFrame(file, old_name_mapping).raised

SucceededStationFrames ==
    LET both == <<files.aug_station, files.sep_station>>
        good == SelectSeq(both, StationFileSucceeded)
    IN  [i \in 1..Len(good) |-> StationFileFrame(good[i], old_name_mapping).frame]

\* An input file is absent, or reading or normalising it raises.
SomeFileFails ==
    \/ \E f \in {files.aug_station, files.sep_station} : ~StationFileSucceeded(f)
    \/ files.aug_pair.state # "ok"
    \/ PairOutputData(files.aug_pair.content, station_code_mapping).raised
    \/ /\ files.sep_station.state = "ok"
       /\ process_station_hourly_exits_v2(files.sep_station.content, old_name_mapping).raised

\* C9: a file that is absent or fails contributes nothing, the files after it
\* are processed and the frames of the files that succeeded are all combined;
\* main() goes on to the next step.
C9_PerFileIsolation ==
    (Running /\ pc \notin {"load", "entry1", "entry2"}) =>
        /\ all_station_data = SucceededStationFrames
        /\ written.entry.saved =>
               SameRows(written.entry.frame, ConcatFrames(SucceededStationFrames))
        /\ SomeFileFails => pc # "crashed"

----------------------------------------------------------------------------
(* Format detection: the try body of main() applied to one workbook, and   *)
(* again to the same workbook with its columns in the opposite order.      *)

MaxHeaderLabelLen == 3

HeaderAlphabet == {"H", "0", "a"}

HeaderLabels(n) == StringsOver(HeaderAlphabet, 1, n)

\* BUSINESS DATE, STATION, H00, H05, H23, TOTAL
SampleHeader ==
    <<<<"H", "0", "0">>, <<"H", "0", "5">>, <<"H", "2", "3">>, TOTAL>>

\* Two different labels of the alphabet after BUSINESS DATE and STATION, or
\* the sample.
DetectHeaders(n) ==
    {h \in HeaderLabels(n) \X HeaderLabels(n) : h[1] # h[2]} \cup {SampleHeader}

\* A workbook of one 'Sep Entry' sheet with one row of 5 in every column.
DetectBook(hour_columns) ==
    <<Sheet(SepEntry, hour_columns,
            <<[c \in {BUSINESS_DATE, STATION} \cup Range(hour_columns) |->
                  IF c = BUSINESS_DATE THEN Str(Date1)
                  ELSE IF c = STATION THEN Str(NameBai)
                  ELSE Num(10)]>>)>>

Reverse(s) == [i \in 1..Len(s) |-> s[Len(s) + 1 - i]]

Detection(book) ==
    [version |-> DetectedVersion(book[1].columns),
     result  |-> StationFileFrame(File(book), <<>>)]

InitDetect ==
    /\ Idle
    /\ pc = "detect"
    /\ old_name_mapping = <<>>
    /\ station_code_mapping = <<>>
    /\ arg \in {DetectBook(h) : h \in DetectHeaders(MaxHeaderLabelLen)}
    /\ ret = <<>>

DetectFormat ==
    /\ pc = "detect"
    /\ ret' = <<Detection(arg)>>
    /\ pc' = "detected"
    /\ UNCHANGED <<old_name_mapping, station_code_mapping, files, all_station_data,
                   all_exit_data, written, arg>>

DetectAgain ==
    /\ pc = "detected"
    /\ arg' = <<[arg[1] EXCEPT !.columns = Reverse(arg[1].columns)]>>
    /\ ret' = Append(ret, Detection(arg'))
    /\ pc' = "redetected"
    /\ UNCHANGED <<old_name_mapping, station_code_mapping, files, all_station_data,
                   all_exit_data, written>>

NextDetect == DetectFormat \/ DetectAgain

SpecDetect == InitDetect /\ [][NextDetect]_vars

\* 'H' followed by exactly two digits.
IsHTwoDigits(label) ==
    /\ Len(label) = 3
    /\ label[1] = "H"
    /\ IsDigit(label[2]) /\ IsDigit(label[3])

HTwoDigitsHour(label) == 10 * DigitVal(label[2]) + DigitVal(label[3])

\* C11: the version detected is V2 exactly when some column label is 'H'
\* followed by exactly two digits and V1 otherwise; the v2 normaliser then
\* reads exactly those columns; detection on the same set of labels gives the
\* same version; the header BUSINESS DATE, STATION, H00, H05, H23, TOTAL is
\* V2 with the hour columns H00, H05, H23.
C11_FormatDetection ==
    pc \in {"detected", "redetected"} =>
        LET columns == arg[1].columns
            last == ret[Len(ret)]
        IN  /\ last.version \in {"V1", "V2"}
            /\ last.version = "V2" <=> \E c \in Range(columns) : IsHTwoDigits(c)
            /\ ~last.result.raised
            /\ last.version = "V2" =>
                   /\ {r.Hour : r \in Range(last.result.frame)}
                          = {HTwoDigitsHour(c) : c \in {c \in Range(columns) : IsHTwoDigits(c)}}
                   /\ Len(last.result.frame)
                          = Cardinality({i \in 1..Len(columns) : IsHTwoDigits(columns[i])})
            /\ last.version = "V1" => last.result.frame = <<>>
            /\ pc = "redetected" => ret[2].version = ret[1].version
            /\ Range(columns) = Range(<<BUSINESS_DATE, STATION>> \o SampleHeader) =>
                   /\ last.version = "V2"
                   /\ {r.Hour : r \in Range(last.result.frame)} = {0, 5, 23}

\* The sample header was classified twice, in both column orders.
C11_Witness ==
    /\ pc = "redetected"
    /\ Range(arg[1].columns) = Range(<<BUSINESS_DATE, STATION>> \o SampleHeader)
    /\ ret[1].version = "V2" /\ ret[2].version = "V2"
    /\ Len(ret[2].result.frame) = 3

----------------------------------------------------------------------------
(* The two exit derivers on one station label, as main() calls them: the   *)
(* label heads a destination column of the August pair table, and a row of *)
(* the September 'Exit' sheet.                                             *)

ExitLabels ==
    {LabelBMaj, LabelGMaj, NameBai, NameMaj, NameKem, CodeBN, CodeMJ, CodeKG}

\* One row of origin MJ at 08Hrs with 5 in the column of the label.
LabelPairBook(label) ==
    <<[name |-> Sheet1,
       columns |-> <<BUSINESS_DATE, STATION, label>>,
       rows |-> <<[c \in {BUSINESS_DATE, STATION, label} |->
                      IF c = BUSINESS_DATE THEN DateHour1
                      ELSE IF c = STATION THEN Str(CodeMJ)
                      ELSE Num(10)]>>]>>

\* One row of the label with 5 under H08.
LabelExitBook(label) ==
    <<Sheet(SepExit, <<<<"H", "0", "8">>>>,
            <<[c \in {BUSINESS_DATE, STATION, <<"H", "0", "8">>} |->
                  IF c = BUSINESS_DATE THEN Str(Date1)
                  ELSE IF c = STATION THEN Str(label)
                  ELSE Num(10)]>>)>>

InitExitNames ==
    /\ Idle
    /\ pc = "exit_names"
    /\ old_name_mapping \in {<<>>, OldNameMap}
    /\ station_code_mapping \in {<<>>, CodeMap}
    /\ arg \in ExitLabels
    /\ ret = <<>>

ExitNameV1 ==
    /\ pc = "exit_names"
    /\ "exits_v1" \notin DOMAIN ret
    /\ \E result \in process_station_hourly_exits_v1(LabelPairBook(arg),
                                                     station_code_mapping) :
           ret' = DictPut(ret, "exits_v1", result)
    /\ UNCHANGED <<pc, old_name_mapping, station_code_mapping, files,
                   all_station_data, all_exit_data, written, arg>>

ExitNameV2 ==
    /\ pc = "exit_names"
    /\ "exits_v2" \notin DOMAIN ret
    /\ ret' = DictPut(ret, "exits_v2",
                      process_station_hourly_exits_v2(LabelExitBook(arg), old_name_mapping))
    /\ UNCHANGED <<pc, old_name_mapping, station_code_mapping, files,
                   all_station_data, all_exit_data, written, arg>>

NextExitNames == ExitNameV1 \/ ExitNameV2

SpecExitNames == InitExitNames /\ [][NextExitNames]_vars

\* C13: both exit derivers write, for a station label, the canonical name of
\* the entry normaliser (what follows the first hyphen, looked up in
\* OldNameMap), so the two periods agree on the Station of one label.
C13_ExitNamesCanonical ==
    /\ \A fn \in {"exits_v1", "exits_v2"} :
           Called(fn) =>
               /\ ~ret[fn].raised
               /\ {r.Station : r \in Range(ret[fn].frame)}
                      = {RuleName(arg, old_name_mapping)}
    /\ (Called("exits_v1") /\ Called("exits_v2")) =>
           {r.Station : r \in Range(ret["exits_v1"].frame)}
               = {r.Station : r \in Range(ret["exits_v2"].frame)}

----------------------------------------------------------------------------
(* Canonicalisation applied once and again to its own result.              *)

CanonAlphabet == {"a", "b", Hyphen}
CanonLabels(n) == StringsOver(CanonAlphabet, 0, n)
CanonMapNames == StringsOver({"a", Hyphen}, 1, 2)
CanonMaps(n) == DictsUpTo(CanonMapNames, CanonMapNames, n)

InitCanon ==
    /\ pc = "canon0"
    /\ old_name_mapping \in CanonMaps(MaxMapSize)
    /\ station_code_mapping = <<>>
    /\ arg \in CanonLabels(MaxLabelLen)
    /\ ret = <<>>
    /\ Idle

CanonOnce ==
    /\ pc = "canon0"
    /\ ret' = <<CanonicalName(arg, old_name_mapping)>>
    /\ pc' = "canon1"
    /\ UNCHANGED <<old_name_mapping, station_code_mapping, files,
                   all_station_data, all_exit_data, written, arg>>

CanonAgain ==
    /\ pc = "canon1"
    /\ ret' = Append(ret, CanonicalName(ret[1], old_name_mapping))
    /\ pc' = "canon2"
    /\ UNCHANGED <<old_name_mapping, station_code_mapping, files,
                   all_station_data, all_exit_data, written, arg>>

NextCanon == CanonOnce \/ CanonAgain

SpecCanon == InitCanon /\ [][NextCanon]_vars

\* A map none of whose values is changed by a second canonicalisation: no
\* value contains a hyphen, and no value is a key mapped to another name.
StableMap(mapping) ==
    \A k \in DOMAIN mapping :
        /\ ~HasHyphen(mapping[k])
        /\ mapping[k] \in DOMAIN mapping => mapping[mapping[k]] = mapping[k]

HyphenCount(s) == Cardinality({i \in 1..Len(s) : s[i] = Hyphen})

\* C6 as stated: canonicalisation is idempotent for every label and every map.
C6_Idempotent == pc = "canon2" => ret[2] = ret[1]

\* C6 amended: canon(canon(L)) = canon(L) for every label L with at most one
\* hyphen and every OldNameMap whose values contain no hyphen and are not
\* keys mapped to a different name.
C6_IdempotentOnStable ==
    (pc = "canon2" /\ HyphenCount(arg) <= 1 /\ StableMap(old_name_mapping))
        => ret[2] = ret[1]

\* A hyphenated label whose working name is renamed by a stable map.
C6_Witness ==
    /\ pc = "canon2"
    /\ HyphenCount(arg) = 1
    /\ StableMap(old_name_mapping)
    /\ WorkingName(arg) \in DOMAIN old_name_mapping
    /\ ret[1] # WorkingName(arg)
    /\ ret[2] = ret[1]

====
